---- MODULE Spec2Model ----
(***************************************************************************)
(* Mean-field variational inference for a continuous-time Bayesian network *)
(* (python/ctbn.py): the neighbourhood builder get_Markov_blankets and the *)
(* coordinate-ascent driver ctbn_variational_log_cond.                     *)
(*                                                                         *)
(* Real-valued quantities are abstracted.  A trajectory object is a record *)
(* of what decides the properties studied here: the boundary value it is   *)
(* anchored at, the sweep that produced it, the versions of the other      *)
(* trajectories its solve was handed, whether its time-derivative is       *)
(* identically zero, and the set of call arguments its values depend on.   *)
(*                                                                         *)
(* Three further specifications cover pure parts of the code with exact    *)
(* integer or rational arithmetic: normalise_ctbn_params, the per-slot     *)
(* terms of the averaged rates q_bar, q_bar_cond, q_tilde, q_tilde_cond,   *)
(* and pickCherries of python/cherry.py.                                   *)
(***************************************************************************)
EXTENDS Integers, Sequences, FiniteSets, TLC

\* ------------------------------------------------------------------ bounds
MaxK == 3
NStates == 2
MaxUpdates == 3

\* min_inc = 1e-3, the default of ctbn_variational_log_cond, as a fraction
MinIncNum == 1
MinIncDen == 1000

VARIABLES
    args,        \* arguments of ctbn_variational_log_cond
    mu_solns,    \* current mu trajectory of every component
    rho_solns,   \* current rho trajectory of every component
    last_i,      \* last index visited, carried through the outer loop
    order,       \* visiting order of the sweep in progress / last finished
    pos,         \* position of the scan inside order
    n_updates,   \* number of sweeps performed
    F_prev,      \* score before the last sweep
    F_curr,      \* score after the last sweep
    F_parts,     \* per-component contributions to the last score
    F_dep,       \* call arguments the last score depends on
    pc,          \* position of the driver
    mb,          \* state of a get_Markov_blankets call
    nm,          \* state of a normalise_ctbn_params call
    rt,          \* state of an evaluation of the mean-field rate averages
    ch           \* state of a pickCherries call (python/cherry.py)

driver_vars == <<args, mu_solns, rho_solns, last_i, order, pos, n_updates,
                 F_prev, F_curr, F_parts, F_dep, pc>>
vars == <<args, mu_solns, rho_solns, last_i, order, pos, n_updates,
          F_prev, F_curr, F_parts, F_dep, pc, mb, nm, rt, ch>>

\* ----------------------------------------------------------------- helpers
Max(S) == CHOOSE m \in S : \A x \in S : x <= m
Min(S) == CHOOSE m \in S : \A x \in S : m <= x

RECURSIVE SortedSeq(_)
SortedSeq(S) == IF S = {} THEN <<>>
                ELSE <<Min(S)>> \o SortedSeq(S \ {Min(S)})

RECURSIVE SumOver(_, _)
SumOver(f, D) == IF D = {} THEN 0
                 ELSE LET d == CHOOSE x \in D : TRUE
                      IN f[d] + SumOver(f, D \ {d})

RECURSIVE Factorial(_)
Factorial(n) == IF n <= 1 THEN 1 ELSE n * Factorial(n - 1)

\* jnp.eye(N)
eye(N) == [r \in 0..(N-1) |-> [c \in 0..(N-1) |-> IF r = c THEN 1 ELSE 0]]

\* ------------------------------------------------- jax.random.permutation
\* The permutation a key yields is a fixed function of the key; every
\* permutation of 0..K-1 is the image of some key.  Keys are 0..K!-1 and the
\* key is decoded as a Lehmer code.
RECURSIVE LehmerDecode(_, _)
LehmerDecode(code, S) ==
    IF S = {} THEN <<>>
    ELSE LET s == SortedSeq(S)
             e == s[(code % Len(s)) + 1]
         IN <<e>> \o LehmerDecode(code \div Len(s), S \ {e})

permutation_with_replacement(prng, K) ==
    [k \in 0..(K-1) |-> (prng \div Factorial(k)) % K]

permutation(prng, K) ==
    LET s == LehmerDecode(prng, 0..(K-1))
    IN [k \in 0..(K-1) |-> s[k+1]]

\* order[::-1]
reversed(o, K) == [k \in 0..(K-1) |-> o[K - 1 - k]]

\* ------------------------------------------------------- call arguments
Comps == 0..(args.K - 1)
Slots == 0..(args.M - 1)

\* neighbour row of a component with neighbour set S, padded with 0 to M
PadIdx(S, M) == LET s == SortedSeq(S)
                IN [k \in 0..(M-1) |-> IF k < Len(s) THEN s[k+1] ELSE 0]
PadMask(S, M) == [k \in 0..(M-1) |-> IF k < Cardinality(S) THEN 1 ELSE 0]

\* contact graphs over kp real components: any set of chain contacts
\* {i,i+1}, or all pairs in contact
ChainEdges(kp) == {{i, i+1} : i \in 0..(kp-2)}
AllEdges(kp) == {{i, j} : i, j \in 0..(kp-1)} \ {{i} : i \in 0..(kp-1)}
ContactGraphs(kp) == SUBSET ChainEdges(kp) \cup {AllEdges(kp)}
NbrsIn(E, i) == {j \in 0..(MaxK-1) : {i, j} \in E /\ j # i}

\* start and end states: padded components carry 0
Boundaries(kp, K, N) ==
    { [xs |-> [i \in 0..(K-1) |-> IF i < kp THEN (a * i) % N ELSE 0],
       ys |-> [i \in 0..(K-1) |-> IF i < kp THEN (N - 1 + a * i) % N ELSE 0]] :
      a \in 0..1 }

MaxDegree(E, kp) == Max({Cardinality(NbrsIn(E, i)) : i \in 0..(kp-1)})

\* the well-shaped argument tuples: K rows everywhere, real components
\* first, real neighbours are real components, padding rows all zero
DriverArgsFor(kp, K, E, M) ==
    { [K |-> K, N |-> NStates, M |-> M,
       xs |-> b.xs, ys |-> b.ys,
       seq_mask |-> [i \in 0..(K-1) |-> IF i < kp THEN 1 ELSE 0],
       nbr_idx  |-> [i \in 0..(K-1) |-> PadIdx(IF i < kp THEN NbrsIn(E, i) ELSE {}, M)],
       nbr_mask |-> [i \in 0..(K-1) |-> PadMask(IF i < kp THEN NbrsIn(E, i) ELSE {}, M)],
       prng |-> key, max_updates |-> MaxUpdates] :
      b \in Boundaries(kp, K, NStates),
      key \in 0..(Factorial(K) - 1) }

DriverArgs ==
    UNION { DriverArgsFor(q[1], q[2], q[3], q[4]) :
            q \in { r \in (1..MaxK) \X (1..MaxK) \X ContactGraphs(MaxK) \X (1..MaxK) :
                    /\ r[1] <= r[2]
                    /\ r[3] \in ContactGraphs(r[1])
                    /\ r[4] >= MaxDegree(r[3], r[1]) } }

\* ------------------------------------------------------ trajectory objects
\* the call arguments a value can depend on, per component
Atom(what, i) == <<what, i>>

NoSolns == [i \in {} |-> 0]

RealNbrs(i) == {args.nbr_idx[i][k] : k \in {s \in Slots : args.nbr_mask[i][s] = 1}}
AllSlots(i) == {args.nbr_idx[i][k] : k \in Slots}

\* mu_0 = jnp.eye(N)[xs], rho_T = jnp.eye(N)[ys]
rho_T_swapped(i) == eye(args.N)[args.xs[i]]
mu_0(i) == eye(args.N)[args.xs[i]]
rho_T(i) == eye(args.N)[args.ys[i]]

\* ExactRho(q1,T,x,y).evaluate(T) = min(expm(q*0)[:,y], 1): column y of the
\* identity.
ExactRho(i, x, y) ==
    [kind |-> "exact", bc |-> [s \in 0..(args.N-1) |-> IF s = y THEN 1 ELSE 0],
     sweep |-> -1, readMu |-> <<>>, readRho |-> <<>>, dzero |-> FALSE,
     dep |-> {Atom("ys", i)}]

\* ExactMu(q1,T,x,y).evaluate(0) = normalised expm(0)[x,:] * rho(0) / exp_qT:
\* row x of the identity scaled by rho(0)[x]/exp_qT > 0 and renormalised
\* (the generator is irreducible, so exp_qT > 0).
ExactMu(i, x, y) ==
    [kind |-> "exact", bc |-> [s \in 0..(args.N-1) |-> IF s = x THEN 1 ELSE 0],
     sweep |-> -1, readMu |-> <<>>, readRho |-> <<>>, dzero |-> FALSE,
     dep |-> {Atom("xs", i), Atom("ys", i)}]

\* versions of the trajectory arrays a solve is handed
Versions(solns) == [j \in Comps |-> solns[j].sweep]

\* eval_mu_rho followed by mu = jnp.where(t < T, mu, rho): what the guarded
\* mu of component j depends on
GuardedMuDep(mu, rho, j) == mu[j].dep \cup rho[j].dep

\* components whose marginal enters each averaged rate of component i
q_bar_mu_reads(i) == RealNbrs(i)        \* ** nbr_mask[idx]: masked slots give 1
q_tilde_mu_reads(i) == RealNbrs(i)      \* einsum with nbr_mask[idx]
q_bar_cond_mu_reads(i) == AllSlots(i)   \* mu[nbr_idx[i]] ** nbr_mask[i,:]
q_tilde_cond_mu_reads(i) == RealNbrs(i) \* einsum with nonself_nbr_mask

\* gamma(idx,...) for one component n: mu[n], q_tilde(n), rho[n]
gamma_dep(mu, rho, n) ==
    {Atom("nbr", n)} \cup GuardedMuDep(mu, rho, n) \cup rho[n].dep
    \cup UNION {GuardedMuDep(mu, rho, j) : j \in q_tilde_mu_reads(n)}

\* psi(i,...): both einsums carry nbr_mask[i], so only real slots count
psi_dep(mu, rho, i) ==
    {Atom("nbr", i)}
    \cup UNION {gamma_dep(mu, rho, n) : n \in RealNbrs(i)}
    \cup UNION {GuardedMuDep(mu, rho, j) :
                j \in q_bar_cond_mu_reads(i) \cup q_tilde_cond_mu_reads(i)}

\* rho_deriv(i,...): q_bar([i]), psi(i), q_tilde([i]); rho[i] is the
\* integration variable
rho_deriv_dep(mu, rho, i) ==
    {Atom("nbr", i)}
    \cup UNION {GuardedMuDep(mu, rho, j) : j \in q_bar_mu_reads(i) \cup q_tilde_mu_reads(i)}
    \cup psi_dep(mu, rho, i)

\* mu_deriv(i,...): gamma([i]) with mu[i] the integration variable
mu_deriv_dep(mu, rho, i) ==
    {Atom("nbr", i)} \cup rho[i].dep
    \cup UNION {GuardedMuDep(mu, rho, j) : j \in q_tilde_mu_reads(i)}

\* `seq_mask[i] * deriv`: a derivative multiplied by the mask of its component
masked(m, dep) == [zero |-> m = 0, dep |-> IF m = 0 THEN {} ELSE dep]

rho_term(mu, rho, i) == masked(args.seq_mask[i], rho_deriv_dep(mu, rho, i))

mu_term(mu, rho, i) == masked(args.seq_mask[i], mu_deriv_dep(mu, rho, i))

\* diffrax.diffeqsolve from t0=T down to 0 with y0 = rho_i_T (= rho_T[i], a
\* function of ys[i]); the dense solution evaluated at T is y0
solve_rho(i, rho_i_T, mu, rho, sweep) ==
    LET term == rho_term(mu, rho, i)
    IN [kind |-> "ode", bc |-> rho_i_T, sweep |-> sweep,
        readMu |-> Versions(mu), readRho |-> Versions(rho),
        dzero |-> term.zero, dep |-> {Atom("ys", i)} \cup term.dep]

\* diffrax.diffeqsolve from t0=0 up to T with y0 = mu_i_0 (= mu_0[i], a
\* function of xs[i]); the dense solution evaluated at 0 is y0
solve_mu(i, mu_i_0, mu, rho, sweep) ==
    LET term == mu_term(mu, rho, i)
    IN [kind |-> "ode", bc |-> mu_i_0, sweep |-> sweep,
        readMu |-> Versions(mu), readRho |-> Versions(rho),
        dzero |-> term.zero, dep |-> {Atom("xs", i)} \cup term.dep]

replace_nth(old_arr, n, new_nth_elt) ==
    [k \in DOMAIN old_arr |-> IF k = n THEN new_nth_elt ELSE old_arr[k]]

\* F_deriv: every term of dF carries mask = seq_mask[:,None,None] * offdiag;
\* c stands for the unmasked double sum of one component
F_deriv_dep(mu, rho, i) ==
    {Atom("nbr", i)} \cup GuardedMuDep(mu, rho, i) \cup rho[i].dep
    \cup UNION {GuardedMuDep(mu, rho, j) : j \in q_bar_mu_reads(i) \cup q_tilde_mu_reads(i)}

F_deriv_no_seq_mask(mu, rho, c) ==
    [i \in Comps |-> [val |-> c, dep |-> F_deriv_dep(mu, rho, i)]]

F_deriv(mu, rho, c) ==
    [i \in Comps |-> [val |-> args.seq_mask[i] * c,
                      dep |-> masked(args.seq_mask[i], F_deriv_dep(mu, rho, i)).dep]]

\* the values the unmasked per-component integral takes
FTerms == {0 - c : c \in 1..(MaxUpdates + 1)}

\* ------------------------------------------------------------------ driver
\* q_bar_cond line 106 raises mu[nbr_idx[i]] (M,N) to nbr_mask[i,:] (M,):
\* the shapes broadcast only if M = N, M = 1 or N = 1
q_bar_cond_shapes_ok == args.M = args.N \/ args.M = 1 \/ args.N = 1

DriverInit ==
    /\ args \in DriverArgs
    /\ mu_solns = NoSolns
    /\ rho_solns = NoSolns
    /\ last_i = -1
    /\ order = <<>>
    /\ pos = 0
    /\ n_updates = 0
    /\ F_prev = 0
    /\ F_curr = 0
    /\ F_parts = <<>>
    /\ F_dep = {}
    /\ pc = "start"
    /\ mb = "idle"
    /\ nm = "idle"
    /\ rt = "idle"
    /\ ch = "idle"

\* lines 333-336
InitExact ==
    /\ pc = "start"
    /\ rho_solns' = [i \in Comps |-> ExactRho(i, args.xs[i], args.ys[i])]
    /\ mu_solns' = [i \in Comps |-> ExactMu(i, args.xs[i], args.ys[i])]
    /\ pc' = "exact"
    /\ UNCHANGED <<args, last_i, order, pos, n_updates, F_prev, F_curr, F_parts, F_dep, mb, nm, rt, ch>>

do_one_update_skipped(init_mu_solns, init_rho_solns) ==
    [mu |-> init_mu_solns, rho |-> init_rho_solns]

\* lines 337-339, "do one update": every rho against the exact solutions,
\* then every mu against the exact mu's and the new rho's
do_one_update(init_mu_solns, init_rho_solns) ==
    LET new_rho == [i \in Comps |->
                      solve_rho(i, rho_T(i), init_mu_solns, init_rho_solns, 0)]
    IN [mu |-> [i \in Comps |->
                  solve_mu(i, mu_0(i), init_mu_solns, new_rho, 0)],
        rho |-> new_rho]

InitBatch ==
    /\ pc = "exact"
    /\ IF q_bar_cond_shapes_ok
       THEN LET new == do_one_update(mu_solns, rho_solns)
            IN /\ rho_solns' = new.rho
               /\ mu_solns' = new.mu
               /\ pc' = "score0"
       ELSE /\ pc' = "error"
            /\ UNCHANGED <<mu_solns, rho_solns>>
    /\ UNCHANGED <<args, last_i, order, pos, n_updates, F_prev, F_curr, F_parts, F_dep, mb, nm, rt, ch>>

\* score_fun
score_fun(mu, rho, c) ==
    LET d == F_deriv(mu, rho, c)
    IN [F |-> SumOver([i \in Comps |-> d[i].val], Comps),
        parts |-> [i \in Comps |-> d[i].val],
        dep |-> UNION {d[i].dep : i \in Comps}]

\* (F_curr - F_prev)/F_prev <= min_inc, for F_prev # 0
RelIncreaseAtMost(Fc, Fp, num, den) ==
    IF Fp > 0 THEN (Fc - Fp) * den <= num * Fp
              ELSE (Fc - Fp) * den >= num * Fp

StopTest_budget_only(Fc, Fp, n) == n >= args.max_updates
StopTest(Fc, Fp, n) ==
    RelIncreaseAtMost(Fc, Fp, MinIncNum, MinIncDen) \/ n >= args.max_updates

\* bounded_optimize: the score of the initial state
ScoreInit ==
    /\ pc = "score0"
    /\ \E c \in FTerms :
         LET s == score_fun(mu_solns, rho_solns, c)
         IN /\ F_curr' = s.F
            /\ F_parts' = s.parts
            /\ F_dep' = s.dep
    /\ pc' = "update"
    /\ UNCHANGED <<args, mu_solns, rho_solns, last_i, order, pos, n_updates, F_prev, mb, nm, rt, ch>>

update_order_against_last(li, prng, K) ==
    LET o == permutation(prng, K)
    IN IF li = o[K - 1] THEN reversed(o, K) ELSE o

\* update_fun, lines 350-352
update_order(li, prng, K) ==
    LET o == permutation(prng, K)
    IN IF li = o[0] THEN reversed(o, K) ELSE o

UpdateBegin ==
    /\ pc = "update"
    /\ order' = update_order(last_i, args.prng, args.K)
    /\ pos' = 0
    /\ pc' = "scan"
    /\ UNCHANGED <<args, mu_solns, rho_solns, last_i, n_updates, F_prev, F_curr, F_parts, F_dep, mb, nm, rt, ch>>

\* loop_body_fun for the next element of order
loop_body_fun_jacobi(mu, rho, i, sweep) ==
    LET new_rho_i == solve_rho(i, rho_T(i), mu, rho, sweep)
        new_mu_i == solve_mu(i, mu_0(i), mu, rho, sweep)
    IN [mu |-> replace_nth(mu, i, new_mu_i), rho |-> replace_nth(rho, i, new_rho_i)]

loop_body_fun(mu, rho, i, sweep) ==
    LET new_rho_i == solve_rho(i, rho_T(i), mu, rho, sweep)
        rho2 == replace_nth(rho, i, new_rho_i)
        new_mu_i == solve_mu(i, mu_0(i), mu, rho2, sweep)
        mu2 == replace_nth(mu, i, new_mu_i)
    IN [mu |-> mu2, rho |-> rho2]

LoopBody ==
    /\ pc = "scan"
    /\ pos < args.K
    /\ LET r == loop_body_fun(mu_solns, rho_solns, order[pos], n_updates + 1)
       IN /\ mu_solns' = r.mu
          /\ rho_solns' = r.rho
    /\ pos' = pos + 1
    /\ UNCHANGED <<args, last_i, order, n_updates, F_prev, F_curr, F_parts, F_dep, pc, mb, nm, rt, ch>>

\* update_fun, line 355: return inner_state, order[-1]
first_of_order(o, K) == o[0]
carried_index(o, K) == o[K - 1]

UpdateReturn ==
    /\ pc = "scan"
    /\ pos = args.K
    /\ last_i' = carried_index(order, args.K)
    /\ n_updates' = n_updates + 1
    /\ pc' = "score"
    /\ UNCHANGED <<args, mu_solns, rho_solns, order, pos, F_prev, F_curr, F_parts, F_dep, mb, nm, rt, ch>>

\* bounded_optimize: score after the sweep, then the stop test
Score ==
    /\ pc = "score"
    /\ \E c \in FTerms :
         LET s == score_fun(mu_solns, rho_solns, c)
         IN /\ F_prev' = F_curr
            /\ F_curr' = s.F
            /\ F_parts' = s.parts
            /\ F_dep' = s.dep
            /\ pc' = IF StopTest(s.F, F_curr, n_updates) THEN "done" ELSE "update"
    /\ UNCHANGED <<args, mu_solns, rho_solns, last_i, order, pos, n_updates, mb, nm, rt, ch>>

DriverNext ==
    \/ InitExact
    \/ InitBatch
    \/ ScoreInit
    \/ UpdateBegin
    \/ LoopBody
    \/ UpdateReturn
    \/ Score

Spec == DriverInit /\ [][DriverNext]_vars

\* the driver is one sequential computation: it keeps taking steps
FairSpec == DriverInit /\ [][DriverNext]_vars /\ WF_vars(DriverNext)

\* ----------------------------------------------------- get_Markov_blankets
\* (x).bit_length() of a Python int: the bits of |x|
RECURSIVE bit_length(_)
bit_length(x) == IF x < 0 THEN bit_length(0 - x)
                 ELSE IF x = 0 THEN 0 ELSE 1 + bit_length(x \div 2)

\* round_up_to_power(x), base 2: 1 << (x-1).bit_length()
round_up_to_power(x) == 2 ^ bit_length(x - 1)

\* Python list repetition [v] * n (empty for n <= 0) and optional arguments
Rep(v, n) == [k \in 1..n |-> v]
None == [given |-> FALSE, val |-> <<>>]
Some(v) == [given |-> TRUE, val |-> v]

\* C[i,:].nonzero()[0]: the column indices of the nonzero entries, increasing
nonzero_with_diag_dropped(C, i, cols) == SortedSeq({j \in 0..(cols-1) : C[i][j] # 0 /\ j # i})
nonzero(C, i, cols) == SortedSeq({j \in 0..(cols-1) : C[i][j] # 0})

\* contact matrices: a graph of ContactGraphs laid out as a square 0/1
\* matrix, optionally with a nonzero diagonal entry; or an all-zero
\* rows x cols matrix
SquareC(kp, E, diag) ==
    [i \in 0..(kp-1) |-> [j \in 0..(kp-1) |->
        IF i # j /\ {i, j} \in E THEN 1
        ELSE IF i = j /\ i = 0 /\ diag THEN 2 ELSE 0]]
ZeroC(r, c) == [i \in 0..(r-1) |-> [j \in 0..(c-1) |-> 0]]

Matrices ==
    UNION { { [C |-> SquareC(kp, E, d), shape |-> <<kp, kp>>] :
              E \in ContactGraphs(kp), d \in BOOLEAN } : kp \in 1..MaxK }
    \cup  { [C |-> ZeroC(r, c), shape |-> <<r, c>>] : r \in 1..MaxK, c \in 1..MaxK }

StateLists == {None} \cup {Some([k \in 1..n |-> (k - 1) % NStates]) : n \in 1..MaxK}
NoSize == [given |-> FALSE, val |-> 0]
SizeArgs == {NoSize} \cup {Some(n) : n \in 0..(MaxK + 1)}

MBCalls ==
    { [pc |-> "validate", C |-> m.C, shape |-> m.shape, xs |-> xs, ys |-> ys,
       K |-> K, M |-> M, K_prepad |-> 0, Kv |-> 0, Mv |-> 0,
       nbr_idx_list |-> <<>>, out |-> None, err |-> ""] :
      m \in Matrices, xs \in StateLists, ys \in StateLists,
      K \in SizeArgs \ {Some(0)}, M \in SizeArgs }

\* lines 368-373: K_prepad and the three input assertions
validate_without_ys(call) ==
    LET K_prepad == call.shape[1]
    IN IF call.shape # <<K_prepad, K_prepad>>
          THEN [call EXCEPT !.pc = "raised", !.K_prepad = K_prepad,
                            !.err = "C must be a square matrix"]
       ELSE IF call.xs.given /\ Len(call.xs.val) # K_prepad
          THEN [call EXCEPT !.pc = "raised", !.K_prepad = K_prepad,
                            !.err = "length of xs must equal size of C"]
       ELSE [call EXCEPT !.pc = "sizes", !.K_prepad = K_prepad]

validate(call) ==
    LET K_prepad == call.shape[1]
    IN IF call.shape # <<K_prepad, K_prepad>>
          THEN [call EXCEPT !.pc = "raised", !.K_prepad = K_prepad,
                            !.err = "C must be a square matrix"]
       ELSE IF call.xs.given /\ Len(call.xs.val) # K_prepad
          THEN [call EXCEPT !.pc = "raised", !.K_prepad = K_prepad,
                            !.err = "length of xs must equal size of C"]
       ELSE IF call.ys.given /\ Len(call.ys.val) # K_prepad
          THEN [call EXCEPT !.pc = "raised", !.K_prepad = K_prepad,
                            !.err = "length of ys must equal size of C"]
       ELSE [call EXCEPT !.pc = "sizes", !.K_prepad = K_prepad]

\* lines 374-380: K, the neighbour lists, M
max_nbrs(nbr_idx_list) == Max({Len(nbr_idx_list[i]) : i \in DOMAIN nbr_idx_list})

sizes(call) ==
    LET K == IF call.K.given THEN call.K.val ELSE round_up_to_power(call.K_prepad)
        nbr_idx_list == [i \in 0..(call.K_prepad - 1) |-> nonzero(call.C, i, call.shape[2])]
    IN IF ~call.M.given
          THEN [call EXCEPT !.pc = "build", !.Kv = K, !.nbr_idx_list = nbr_idx_list,
                            !.Mv = round_up_to_power(max_nbrs(nbr_idx_list))]
       ELSE IF call.M.val >= max_nbrs(nbr_idx_list)
          THEN [call EXCEPT !.pc = "build", !.Kv = K, !.nbr_idx_list = nbr_idx_list,
                            !.Mv = call.M.val]
       ELSE [call EXCEPT !.pc = "raised", !.Kv = K, !.nbr_idx_list = nbr_idx_list,
                         !.err = "M must be at least as large as the largest number of neighbors"]

\* lines 381-389: the masks, the index rows, the padded xs and ys
pad_states(l, K, K_prepad) ==
    IF l.given THEN Some(l.val \o Rep(0, K - K_prepad)) ELSE None

nbr_idx_rows(call) ==
    [i \in 0..(call.K_prepad - 1) |->
        call.nbr_idx_list[i] \o Rep(0, call.Mv - Len(call.nbr_idx_list[i]))]

nbr_mask_rows(call) ==
    [i \in 0..(Max({call.Kv, call.K_prepad}) - 1) |->
        IF i < call.K_prepad
        THEN Rep(1, Len(call.nbr_idx_list[i])) \o Rep(0, call.Mv - Len(call.nbr_idx_list[i]))
        ELSE Rep(0, call.Mv)]

build(call) ==
    [call EXCEPT !.pc = "returned",
       !.out = Some([seq_mask |-> [i \in 0..(call.Kv - 1) |-> IF i < call.K_prepad THEN 1 ELSE 0],
                     nbr_idx  |-> nbr_idx_rows(call),
                     nbr_mask |-> nbr_mask_rows(call),
                     xs |-> pad_states(call.xs, call.Kv, call.K_prepad),
                     ys |-> pad_states(call.ys, call.Kv, call.K_prepad)])]

MBInit ==
    /\ mb \in MBCalls
    /\ args = <<>>
    /\ mu_solns = NoSolns
    /\ rho_solns = NoSolns
    /\ last_i = -1
    /\ order = <<>>
    /\ pos = 0
    /\ n_updates = 0
    /\ F_prev = 0
    /\ F_curr = 0
    /\ F_parts = <<>>
    /\ F_dep = {}
    /\ pc = "idle"
    /\ nm = "idle"
    /\ rt = "idle"
    /\ ch = "idle"

MBValidate ==
    /\ mb.pc = "validate"
    /\ mb' = validate(mb)
    /\ UNCHANGED <<driver_vars, nm, rt, ch>>

MBSizes ==
    /\ mb.pc = "sizes"
    /\ mb' = sizes(mb)
    /\ UNCHANGED <<driver_vars, nm, rt, ch>>

MBBuild ==
    /\ mb.pc = "build"
    /\ mb' = build(mb)
    /\ UNCHANGED <<driver_vars, nm, rt, ch>>

MBNext == MBValidate \/ MBSizes \/ MBBuild

SpecBlankets == MBInit /\ [][MBNext]_vars

\* ------------------------------------------- normalise_ctbn_params (60-63)
\* A real matrix is held exactly: entry (i,j) is n[i][j] / d, d > 0.
States == 0..(NStates - 1)
Mat(n, d) == [n |-> n, d |-> d]
MatEq(a, b) == \A i, j \in States : a.n[i][j] * b.d = b.n[i][j] * a.d

\* jnp.abs
abs(m) == Mat([i \in States |-> [j \in States |->
                 IF m.n[i][j] < 0 THEN 0 - m.n[i][j] ELSE m.n[i][j]]], m.d)

\* (matrix + matrix.swapaxes(-1,-2)) / 2
symmetrise(m) == Mat([i \in States |-> [j \in States |->
                        m.n[i][j] + m.n[j][i]]], 2 * m.d)

\* matrix - jnp.diag(jnp.sum(matrix, axis=-1))
row_normalise(m) == Mat([i \in States |-> [j \in States |->
                           IF i = j THEN m.n[i][j] - SumOver(m.n[i], States)
                           ELSE m.n[i][j]]], m.d)

normalise_ctbn_params(params) ==
    [S |-> symmetrise(row_normalise(abs(params.S))),
     J |-> symmetrise(params.J),
     h |-> params.h]

\* raw parameters: S is neither symmetric nor nonnegative in general
SEntries == {-1, 0, 2}
RawS == {Mat(n, 1) : n \in [States -> [States -> SEntries]]}
RawJ == {Mat([i \in States |-> [j \in States |-> 0]], 1),
         Mat([i \in States |-> [j \in States |-> IF i = j THEN 0 ELSE 1]], 1),
         Mat([i \in States |-> [j \in States |-> IF i < j THEN 0 - 3 ELSE i]], 1)}
RawH == {[i \in States |-> 0], [i \in States |-> i - 1]}
RawParams == [S : RawS, J : RawJ, h : RawH]

DriverIdle ==
    /\ args = <<>>
    /\ mu_solns = NoSolns
    /\ rho_solns = NoSolns
    /\ last_i = -1
    /\ order = <<>>
    /\ pos = 0
    /\ n_updates = 0
    /\ F_prev = 0
    /\ F_curr = 0
    /\ F_parts = <<>>
    /\ F_dep = {}
    /\ pc = "idle"

NormInit ==
    /\ nm \in [pc : {"raw"}, raw : RawParams, once : {<<>>}, twice : {<<>>}]
    /\ DriverIdle
    /\ mb = "idle"
    /\ rt = "idle"
    /\ ch = "idle"

\* params = normalise_ctbn_params(params)
Normalise ==
    /\ nm.pc = "raw"
    /\ nm' = [nm EXCEPT !.pc = "once", !.once = normalise_ctbn_params(nm.raw)]
    /\ UNCHANGED <<driver_vars, mb, rt, ch>>

\* a second application to the already normalised parameters
NormaliseAgain ==
    /\ nm.pc = "once"
    /\ nm' = [nm EXCEPT !.pc = "twice", !.twice = normalise_ctbn_params(nm.once)]
    /\ UNCHANGED <<driver_vars, mb, rt, ch>>

NormNext == Normalise \/ NormaliseAgain

SpecNormalise == NormInit /\ [][NormNext]_vars

\* --------------------------- masked neighbour slots in the averaged rates
\* q_bar (81-92), q_bar_cond (96-109), q_tilde (114-121) and q_tilde_cond
\* (125-135) for one component i.  Only the per-slot terms entering the
\* product (sum) over the neighbour axis are modelled; the factors
\* S * offdiag_mask(N), exp(h) and exp(+-2*cond_energy) do not involve the
\* neighbour axis.  A probability is a numerator over MuDen.  J is held in
\* units of ln(3)/2, so that exp(2*J) = 3^J exactly.
MuDen == NStates
MaxM == MaxK
NbrSlots(M) == 0..(M - 1)

exp_2J(J) == [y \in States |-> [x \in States |-> 3 ^ J[y][x]]]

\* x ** m for a mask value m in {0,1}; x a numerator over den (den = 1 for
\* an integer)
pow_mask(x, m, den) == IF m = 0 THEN den ELSE x

\* offdiag_mask(M) * jnp.outer(nbr_mask[i], nbr_mask[i])
nonself_nbr_mask(mask, M) ==
    [j \in NbrSlots(M) |-> [k \in NbrSlots(M) |->
        (IF j = k THEN 0 ELSE 1) * mask[j] * mask[k]]]

\* jnp.einsum('akx,akyx->aky', mu_nbr, exp_2JC) ** nbr_mask[idx][:,:,None]
q_bar_terms(mask, M, J, mu_nbr) ==
    [k \in NbrSlots(M) |-> [y \in States |->
        pow_mask(SumOver([x \in States |-> mu_nbr[k][x] * exp_2J(J)[y][x]], States),
                 mask[k], MuDen)]]

\* the summands over k of jnp.einsum('akx,ak,yx->ay', mu[nbr_idx[idx,:]],
\* nbr_mask[idx,:], J)
q_tilde_terms(mask, M, J, mu_nbr) ==
    [k \in NbrSlots(M) |-> [y \in States |->
        SumOver([x \in States |-> mu_nbr[k][x] * mask[k] * J[y][x]], States)]]

\* the summands over k of jnp.einsum('kx,jk,yx->jy', mu[nbr_idx[i]],
\* nonself_nbr_mask, J)
q_tilde_cond_terms(mask, M, J, mu_nbr) ==
    [j \in NbrSlots(M) |-> [k \in NbrSlots(M) |-> [y \in States |->
        SumOver([x \in States |->
                   mu_nbr[k][x] * nonself_nbr_mask(mask, M)[j][k] * J[y][x]],
                States)]]]

\* mu[nbr_idx[i]] ** nbr_mask[i,:]: a (M,N) array raised to a (M,) array.
\* Broadcasting aligns the mask with the LAST axis (the states): entry
\* (k,x) is raised to nbr_mask[i,x] when M = N, to nbr_mask[i,0] when
\* M = 1, and the shapes are incompatible otherwise (N >= 2).
mu_nbr_pow(mask, M, mu_nbr) ==
    IF M = NStates
    THEN [given |-> TRUE,
          val |-> [k \in NbrSlots(M) |-> [x \in States |->
                     pow_mask(mu_nbr[k][x], mask[x], MuDen)]]]
    ELSE IF M = 1
    THEN [given |-> TRUE,
          val |-> [k \in NbrSlots(M) |-> [x \in States |->
                     pow_mask(mu_nbr[k][x], mask[0], MuDen)]]]
    ELSE [given |-> FALSE, val |-> <<>>]

\* jnp.einsum('kx,jkyx->jky', mu_nbr, exp_2JC) with
\* exp_2JC = exp_2J[None,None,:,:] ** nonself_nbr_mask[:,:,None,None]
q_bar_cond_terms(mask, M, J, mu_nbr) ==
    LET p == mu_nbr_pow(mask, M, mu_nbr)
    IN IF ~p.given THEN p
       ELSE [given |-> TRUE,
             val |-> [j \in NbrSlots(M) |-> [k \in NbrSlots(M) |-> [y \in States |->
                SumOver([x \in States |->
                           p.val[k][x] * pow_mask(exp_2J(J)[y][x],
                                                  nonself_nbr_mask(mask, M)[j][k], 1)],
                        States)]]]]

\* the neighbour row of one component as get_Markov_blankets lays it out:
\* the real slots first
MaskRows(M) == {[k \in NbrSlots(M) |-> IF k < r THEN 1 ELSE 0] : r \in 0..M}
\* marginals over the states: a point mass on the first or on the last
\* state, or uniform
Marginals == {[x \in States |-> IF x = 0 THEN MuDen ELSE 0],
              [x \in States |-> IF x = NStates - 1 THEN MuDen ELSE 0],
              [x \in States |-> 1]}
Couplings == {[y \in States |-> [x \in States |-> 0]],
              [y \in States |-> [x \in States |-> IF x = y THEN 0 ELSE 1]]}
NotEvaluated == [given |-> FALSE, val |-> <<>>]
RateCalls ==
    UNION {[M : {M}, nbr_mask : MaskRows(M), mu_nbr : [NbrSlots(M) -> Marginals],
            J : Couplings,
            q_bar : {NotEvaluated}, q_tilde : {NotEvaluated},
            q_tilde_cond : {NotEvaluated}, q_bar_cond : {NotEvaluated},
            err : {""}] : M \in 1..MaxM}

RatesInit ==
    /\ rt \in RateCalls
    /\ DriverIdle
    /\ mb = "idle"
    /\ nm = "idle"
    /\ ch = "idle"

EvalQBar ==
    /\ ~rt.q_bar.given
    /\ rt' = [rt EXCEPT !.q_bar =
                Some(q_bar_terms(rt.nbr_mask, rt.M, rt.J, rt.mu_nbr))]
    /\ UNCHANGED <<driver_vars, mb, nm, ch>>

EvalQTilde ==
    /\ ~rt.q_tilde.given
    /\ rt' = [rt EXCEPT !.q_tilde =
                Some(q_tilde_terms(rt.nbr_mask, rt.M, rt.J, rt.mu_nbr))]
    /\ UNCHANGED <<driver_vars, mb, nm, ch>>

EvalQTildeCond ==
    /\ ~rt.q_tilde_cond.given
    /\ rt' = [rt EXCEPT !.q_tilde_cond =
                Some(q_tilde_cond_terms(rt.nbr_mask, rt.M, rt.J, rt.mu_nbr))]
    /\ UNCHANGED <<driver_vars, mb, nm, ch>>

EvalQBarCond ==
    /\ ~rt.q_bar_cond.given
    /\ rt.err = ""
    /\ LET r == q_bar_cond_terms(rt.nbr_mask, rt.M, rt.J, rt.mu_nbr)
       IN rt' = [rt EXCEPT !.q_bar_cond = r,
                           !.err = IF r.given THEN ""
                                   ELSE "incompatible shapes for broadcasting"]
    /\ UNCHANGED <<driver_vars, mb, nm, ch>>

RatesNext == EvalQBar \/ EvalQTilde \/ EvalQTildeCond \/ EvalQBarCond

SpecRates == RatesInit /\ [][RatesNext]_vars

\* ------------------------------------------- pickCherries (cherry.py 17-57)
\* Python lists are functions on 0..len-1; the lists built by the code
\* (leaves, lp, the pairs yielded) are sequences.
MaxNodes == 5
DistValues == {0, 1, 3}
Nodes(parentIndex) == DOMAIN parentIndex

\* trees in preorder: node 0 is the root, every other node has an earlier
\* parent; pad trailing padding nodes are their own parent
ParentIndexes(n, pad) ==
    {p \in [0..(n + pad - 1) -> -1..(n + pad - 1)] :
        /\ p[0] = -1
        /\ \A k \in 1..(n - 1) : p[k] >= 0 /\ p[k] < k
        /\ \A k \in n..(n + pad - 1) : p[k] = k}
ValidCalls ==
    UNION {[parentIndex : ParentIndexes(n, pad),
            distanceToParent : {d \in [0..(n + pad - 1) -> DistValues] :
                                   /\ d[0] = 0
                                   /\ \A k \in n..(n + pad - 1) : d[k] = 0}] :
           n \in 1..MaxNodes, pad \in 0..1}
\* calls that violate one of the four preconditions
RejectedCalls ==
    {[parentIndex |-> [k \in 0..2 |-> -1 + k], distanceToParent |-> [k \in 0..1 |-> 1]],
     [parentIndex |-> [k \in 0..2 |-> IF k = 1 THEN 2 ELSE -1 + k], distanceToParent |-> [k \in 0..2 |-> 1]],
     [parentIndex |-> [k \in 0..2 |-> IF k = 2 THEN 0 ELSE -1], distanceToParent |-> [k \in 0..2 |-> 1]],
     [parentIndex |-> [k \in 0..2 |-> IF k = 0 THEN 0 ELSE -1 + k], distanceToParent |-> [k \in 0..2 |-> 1]],
     [parentIndex |-> [k \in 0..2 |-> -1 + k], distanceToParent |-> [k \in 0..2 |-> 1 - k]]}

\* lines 18-21: the message of the first failing assert, "" if none fails
cherry_asserts(parentIndex, distanceToParent) ==
    IF Cardinality(DOMAIN parentIndex) # Cardinality(DOMAIN distanceToParent)
    THEN "Parent index and distance to parent must have the same length"
    ELSE IF {n \in Nodes(parentIndex) : parentIndex[n] > n} # {}
    THEN "Parent index must be sorted in preorder"
    ELSE IF {n \in Nodes(parentIndex) : parentIndex[n] < 0} # {0}
    THEN "There must be exactly one root node"
    ELSE IF {n \in Nodes(parentIndex) : distanceToParent[n] < 0} # {}
    THEN "All distances must be nonnegative"
    ELSE ""

\* lines 23-26: a parent entry p >= 0 counts one child for p
nChildren(parentIndex) ==
    [n \in Nodes(parentIndex) |->
        Cardinality({m \in Nodes(parentIndex) : parentIndex[m] = n})]

\* line 28
leaves(parentIndex) ==
    SortedSeq({n \in Nodes(parentIndex) : nChildren(parentIndex)[n] = 0})

\* lines 36-44: climb from the node with the larger index until both meet
RECURSIVE climb(_, _, _, _, _)
climb(parentIndex, distanceToParent, ia, ja, dij) ==
    IF ia = ja THEN dij
    ELSE IF ia > ja
    THEN climb(parentIndex, distanceToParent, parentIndex[ia], ja,
               dij + distanceToParent[ia])
    ELSE climb(parentIndex, distanceToParent, ia, parentIndex[ja],
               dij + distanceToParent[ja])

visit_pair_no_removal(available, lp, i, j, dij) ==
    IF dij > 0
    THEN [available |-> available, lp |-> Append(lp, [i |-> i, j |-> j, d |-> dij])]
    ELSE [available |-> available, lp |-> lp]

\* lines 45-48: yield the pair, or remove j as a duplicate of i
visit_pair(available, lp, i, j, dij) ==
    IF dij > 0
    THEN [available |-> available, lp |-> Append(lp, [i |-> i, j |-> j, d |-> dij])]
    ELSE [available |-> [available EXCEPT ![j] = FALSE], lp |-> lp]

\* lines 31-48, the generator run to exhaustion: ni, nj are the positions
\* in leaves of i and j
RECURSIVE leafPairs(_, _, _, _, _, _)
leafPairs(parentIndex, distanceToParent, ni, nj, available, lp) ==
    LET lv == leaves(parentIndex)
    IN IF ni > Len(lv) THEN [available |-> available, lp |-> lp]
       ELSE IF ~available[lv[ni]] \/ nj > Len(lv)
       THEN leafPairs(parentIndex, distanceToParent, ni + 1, ni + 2, available, lp)
       ELSE IF ~available[lv[nj]]
       THEN leafPairs(parentIndex, distanceToParent, ni, nj + 1, available, lp)
       ELSE LET v == visit_pair(available, lp, lv[ni], lv[nj],
                                climb(parentIndex, distanceToParent, lv[ni], lv[nj], 0))
            IN leafPairs(parentIndex, distanceToParent, ni, nj + 1, v.available, v.lp)

unsorted(s) == s

\* sorted(..., key=lambda x: x[1]): stable, ascending in the distance
RECURSIVE sorted(_)
sorted(s) ==
    IF s = <<>> THEN <<>>
    ELSE LET t == sorted(SubSeq(s, 1, Len(s) - 1))
             e == s[Len(s)]
             n == Cardinality({k \in 1..Len(t) : t[k].d <= e.d})
         IN SubSeq(t, 1, n) \o <<e>> \o SubSeq(t, n + 1, Len(t))

CherryInit ==
    /\ ch \in [pc : {"call"}, parentIndex : {<<>>}, distanceToParent : {<<>>},
               call : ValidCalls \cup RejectedCalls,
               available : {<<>>}, lp : {<<>>}, k : {1}, out : {<<>>}, err : {""}]
    /\ DriverIdle
    /\ mb = "idle"
    /\ nm = "idle"
    /\ rt = "idle"

\* lines 18-29
CherryStart ==
    /\ ch.pc = "call"
    /\ LET e == cherry_asserts(ch.call.parentIndex, ch.call.distanceToParent)
       IN IF e # ""
          THEN ch' = [ch EXCEPT !.pc = "raised", !.err = e]
          ELSE ch' = [ch EXCEPT !.pc = "leafPairs",
                                !.parentIndex = ch.call.parentIndex,
                                !.distanceToParent = ch.call.distanceToParent,
                                !.available = [n \in Nodes(ch.call.parentIndex) |-> TRUE]]
    /\ UNCHANGED <<driver_vars, mb, nm, rt>>

\* line 49: lp = sorted(leafPairs(), key=lambda x: x[1])
CherrySort ==
    /\ ch.pc = "leafPairs"
    /\ LET r == leafPairs(ch.parentIndex, ch.distanceToParent, 1, 2, ch.available, <<>>)
       IN ch' = [ch EXCEPT !.pc = "cherryPairs", !.available = r.available,
                           !.lp = sorted(r.lp), !.k = 1]
    /\ UNCHANGED <<driver_vars, mb, nm, rt>>

\* lines 51-56: the consumer advances cherryPairs over one element of lp
CherryPairsStep ==
    /\ ch.pc = "cherryPairs"
    /\ ch.k <= Len(ch.lp)
    /\ LET e == ch.lp[ch.k]
       IN IF ch.available[e.i] /\ ch.available[e.j]
          THEN ch' = [ch EXCEPT !.available = [ch.available EXCEPT ![e.i] = FALSE,
                                                                   ![e.j] = FALSE],
                                !.out = Append(ch.out, e),
                                !.k = ch.k + 1]
          ELSE ch' = [ch EXCEPT !.k = ch.k + 1]
    /\ UNCHANGED <<driver_vars, mb, nm, rt>>

\* the loop over lp ends: the generator is exhausted
CherryPairsEnd ==
    /\ ch.pc = "cherryPairs"
    /\ ch.k > Len(ch.lp)
    /\ ch' = [ch EXCEPT !.pc = "exhausted"]
    /\ UNCHANGED <<driver_vars, mb, nm, rt>>

CherryNext == CherryStart \/ CherrySort \/ CherryPairsStep \/ CherryPairsEnd

SpecCherry == CherryInit /\ [][CherryNext]_vars

\* =================================================================== claims
\* the sweep in progress or last finished, and the positions of order
\* already processed in it
CurSweep == IF pc = "scan" THEN n_updates + 1 ELSE n_updates
Processed == IF pc = "scan" THEN 0..(pos - 1) ELSE Comps
InSweep == pc \in {"scan", "score", "update", "done"} /\ CurSweep >= 1
Earlier(p) == {order[k] : k \in 0..(p - 1)}

\* C1: in every sweep the visiting order is a permutation of 0..K-1 and each
\* component is re-solved exactly once: after p steps of the scan exactly
\* the p distinct components order[0..p-1] carry this sweep's stamp, and
\* after the sweep all K do.
C1_SweepVisitsEachOnce ==
    InSweep =>
      /\ {order[k] : k \in Comps} = Comps
      /\ \A k1, k2 \in Comps : order[k1] = order[k2] => k1 = k2
      /\ {i \in Comps : rho_solns[i].sweep = CurSweep} = {order[k] : k \in Processed}
      /\ {i \in Comps : mu_solns[i].sweep = CurSweep} = {order[k] : k \in Processed}
      /\ Cardinality({order[k] : k \in Processed}) = Cardinality(Processed)

C1_Witness ==
    /\ pc = "score"
    /\ n_updates >= 2
    /\ args.K = MaxK
    /\ \A i \in Comps : mu_solns[i].sweep = n_updates

\* C2 as stated: the first index of every sweep differs from the carried
\* lastUpdatedIndex, which is -1 before the first sweep and the final
\* element of the previous sweep's order afterwards.
C2_LastIndexCarried ==
    /\ (pc \in {"start", "exact", "score0", "update", "scan"} /\ n_updates = 0) => last_i = -1
    /\ (pc \in {"score", "update", "done"} /\ n_updates >= 1) => last_i = order[args.K - 1]

C2_Original ==
    /\ C2_LastIndexCarried
    /\ pc = "scan" => order[0] # last_i

\* C2 amended: the same, for K >= 2; with a single component every sweep
\* starts (and ends) with component 0.
C2_AntiRepetition ==
    /\ C2_LastIndexCarried
    /\ (pc = "scan" /\ args.K >= 2) => order[0] # last_i
    /\ (pc = "scan" /\ args.K = 1) => order[0] = 0

C2_Witness ==
    /\ pc = "scan"
    /\ args.K >= 2
    /\ n_updates >= 1
    /\ last_i = order[args.K - 1]
    /\ order[0] # last_i

\* C3: Gauss-Seidel propagation.  The component at position p of the sweep
\* has its rho solved against arrays holding this sweep's mu and rho for the
\* components at positions < p and the previous versions for all others
\* (itself included); its mu is then solved against the same mu array and a
\* rho array that also holds its own new rho.
C3_GaussSeidel ==
    InSweep =>
      \A p \in Processed :
        LET i == order[p]
            fresh(j) == IF j \in Earlier(p) THEN CurSweep ELSE CurSweep - 1
        IN /\ rho_solns[i].sweep = CurSweep
           /\ mu_solns[i].sweep = CurSweep
           /\ rho_solns[i].readMu = [j \in Comps |-> fresh(j)]
           /\ rho_solns[i].readRho = [j \in Comps |-> fresh(j)]
           /\ mu_solns[i].readMu = [j \in Comps |-> fresh(j)]
           /\ mu_solns[i].readRho = [j \in Comps |-> IF j = i THEN CurSweep ELSE fresh(j)]

C3_Witness ==
    /\ pc = "scan"
    /\ n_updates >= 1
    /\ pos >= 2
    /\ mu_solns[order[1]].readRho[order[0]] = n_updates + 1
    /\ mu_solns[order[1]].readRho[order[1]] = n_updates + 1

\* C4: the loop performs at most max_updates sweeps; it has stopped only
\* after a sweep whose relative increase is at most min_inc or which is
\* sweep number max_updates, and whenever it goes on after a sweep that
\* sweep's relative increase was above min_inc and the budget was not yet
\* used up.
C4_StopRule ==
    /\ n_updates <= args.max_updates
    /\ pc = "done" =>
         /\ n_updates >= 1
         /\ \/ RelIncreaseAtMost(F_curr, F_prev, MinIncNum, MinIncDen)
            \/ n_updates = args.max_updates
    /\ (pc \in {"update", "scan"} /\ n_updates >= 1) =>
         /\ ~RelIncreaseAtMost(F_curr, F_prev, MinIncNum, MinIncDen)
         /\ n_updates < args.max_updates

\* under FairSpec every call ends, stopped by the rule or by the shape error
C4_Terminates == <>(pc \in {"done", "error"})

C4_Witness ==
    /\ pc = "done"
    /\ n_updates = args.max_updates
    /\ ~RelIncreaseAtMost(F_curr, F_prev, MinIncNum, MinIncDen)

\* C5: in every driver state that holds trajectories, for every real
\* component i the mu trajectory at t=0 is one-hot(xs[i]) and the rho
\* trajectory at t=T is one-hot(ys[i]).
OneHot(x, N) == [s \in 0..(N-1) |-> IF s = x THEN 1 ELSE 0]

C5_BoundaryFidelity ==
    \A i \in DOMAIN mu_solns :
      args.seq_mask[i] = 1 =>
        /\ mu_solns[i].bc = OneHot(args.xs[i], args.N)
        /\ rho_solns[i].bc = OneHot(args.ys[i], args.N)

C5_Witness ==
    /\ pc = "done"
    /\ n_updates >= 2
    /\ \E i \in Comps : /\ args.seq_mask[i] = 1
                        /\ args.xs[i] # args.ys[i]
                        /\ mu_solns[i].kind = "ode"
                        /\ rho_solns[i].bc = OneHot(args.ys[i], args.N)

\* C6: padding invariance.  Every solved trajectory of a padded component
\* has zero time-derivative; padded components contribute 0 to F; and no
\* argument attached to a padded component (its xs, ys or neighbour row)
\* is among the arguments that F or a real component's trajectory depends on.
Padded == {i \in Comps : args.seq_mask[i] = 0}
PaddedAtoms == {Atom(w, p) : w \in {"xs", "ys", "nbr"}, p \in Padded}

Returned == pc = "idle" /\ mb.pc = "returned"
Out == mb.out.val
RealRows == 0..(mb.K_prepad - 1)
NonzeroCols(i) == {j \in 0..(mb.shape[2] - 1) : mb.C[i][j] # 0}

\* C7: on return with K >= K_prepad, seq_mask has length K with ones exactly
\* below K_prepad, nbr_idx and nbr_mask both have K rows of M entries with
\* all-zero rows for the padded components, and xs, ys (when given) have
\* length K with zeros at the padded positions.
C7_OutputShapes ==
    (Returned /\ mb.Kv >= mb.K_prepad) =>
      /\ DOMAIN Out.seq_mask = 0..(mb.Kv - 1)
      /\ \A i \in DOMAIN Out.seq_mask : Out.seq_mask[i] = 1 <=> i < mb.K_prepad
      /\ DOMAIN Out.nbr_idx = 0..(mb.Kv - 1)
      /\ DOMAIN Out.nbr_mask = 0..(mb.Kv - 1)
      /\ \A i \in DOMAIN Out.nbr_idx : Len(Out.nbr_idx[i]) = mb.Mv
      /\ \A i \in DOMAIN Out.nbr_mask : Len(Out.nbr_mask[i]) = mb.Mv
      /\ \A i \in DOMAIN Out.nbr_idx :
           i >= mb.K_prepad => \A k \in 1..mb.Mv : Out.nbr_idx[i][k] = 0
      /\ \A i \in DOMAIN Out.nbr_mask :
           i >= mb.K_prepad => \A k \in 1..mb.Mv : Out.nbr_mask[i][k] = 0
      /\ \A l \in {Out.xs, Out.ys} :
           l.given => /\ Len(l.val) = mb.Kv
                      /\ \A k \in 1..Len(l.val) : k > mb.K_prepad => l.val[k] = 0

\* C8: a K or M that is not supplied is the smallest power of two that is
\* at least K_prepad, resp. at least the largest neighbour count (0
\* included); a supplied K or M is used unchanged.
SmallestPowerOfTwoAtLeast(n) == Min({2 ^ e : e \in {d \in 0..(n + 1) : 2 ^ d >= n}})
LargestNbrCount == Max({Cardinality(NonzeroCols(i)) : i \in RealRows})

C8_PowerOfTwoRounding ==
    Returned =>
      /\ mb.Kv = IF mb.K.given THEN mb.K.val ELSE SmallestPowerOfTwoAtLeast(mb.K_prepad)
      /\ mb.Mv = IF mb.M.given THEN mb.M.val ELSE SmallestPowerOfTwoAtLeast(LargestNbrCount)
      /\ DOMAIN Out.seq_mask = 0..(mb.Kv - 1)
      /\ \A i \in DOMAIN Out.nbr_mask : Len(Out.nbr_mask[i]) = mb.Mv

\* C9: for every real component i the leading slots of nbr_idx[i] list the
\* columns j with C[i,j] # 0, each once, in increasing order, with mask 1;
\* every remaining slot has mask 0 and index 0.  The matrix [[0,1],[1,0]]
\* with no K, M supplied gives K=2, M=1, nbr_idx=[[1],[0]], nbr_mask=[[1],[1]].
C9_NeighbourContents ==
    Returned =>
      /\ \A i \in RealRows :
           LET n == Cardinality(NonzeroCols(i))
               idx == Out.nbr_idx[i]
               mask == Out.nbr_mask[i]
           IN /\ Len(idx) = mb.Mv /\ Len(mask) = mb.Mv /\ n <= mb.Mv
              /\ \A k \in 1..mb.Mv : mask[k] = (IF k <= n THEN 1 ELSE 0)
              /\ {idx[k] : k \in 1..n} = NonzeroCols(i)
              /\ \A k1, k2 \in 1..n : k1 < k2 => idx[k1] < idx[k2]
              /\ \A k \in (n + 1)..mb.Mv : idx[k] = 0
      /\ (mb.C = SquareC(2, {{0, 1}}, FALSE) /\ ~mb.K.given /\ ~mb.M.given) =>
           /\ mb.Kv = 2 /\ mb.Mv = 1
           /\ Out.nbr_idx = [i \in 0..1 |-> <<1 - i>>]
           /\ Out.nbr_mask = [i \in 0..1 |-> <<1>>]

C9_Witness ==
    /\ Returned
    /\ mb.K_prepad >= 3
    /\ mb.Mv >= 2
    /\ \E i \in RealRows : Cardinality(NonzeroCols(i)) = 2 /\ Out.nbr_mask[i][2] = 1
    /\ \E i \in RealRows : Cardinality(NonzeroCols(i)) < mb.Mv
                           /\ Out.nbr_mask[i][mb.Mv] = 0

\* C10: a non-square C, an xs or ys of the wrong length, or a supplied M
\* below the largest neighbour count makes the call raise: such a call never
\* reaches the construction of the outputs, ends raised with a message and
\* no result, and no trajectory has been solved; a call that returns had
\* none of these defects.
NonSquare == mb.shape[1] # mb.shape[2]
WrongLength(l) == l.given /\ Len(l.val) # mb.shape[1]
MTooSmall ==
    /\ ~NonSquare
    /\ mb.M.given
    /\ mb.M.val < Max({Cardinality(NonzeroCols(i)) : i \in 0..(mb.shape[1] - 1)})
InvalidCall == NonSquare \/ WrongLength(mb.xs) \/ WrongLength(mb.ys) \/ MTooSmall

C10_FailFast ==
    pc = "idle" =>
      /\ InvalidCall => mb.pc \in {"validate", "sizes", "raised"}
      /\ (NonSquare \/ WrongLength(mb.xs) \/ WrongLength(mb.ys)) =>
            mb.pc \in {"validate", "raised"}
      /\ mb.pc = "raised" => InvalidCall /\ mb.err # "" /\ ~mb.out.given
      /\ mb.pc \in {"returned", "build"} => ~InvalidCall /\ mb.err = ""
      /\ mb.out.given => mb.pc = "returned"
      /\ mu_solns = NoSolns /\ rho_solns = NoSolns

C10_Witness ==
    /\ pc = "idle"
    /\ mb.pc = "raised"
    /\ MTooSmall
    /\ ~WrongLength(mb.xs) /\ ~WrongLength(mb.ys)
    /\ mb.err = "M must be at least as large as the largest number of neighbors"
    /\ ~mb.out.given

\* ------------------------------------------------------------------- C11
\* C11: normalise_ctbn_params is idempotent: for every raw parameter set
\* (S neither symmetric nor nonnegative in general) a second application
\* returns the same S, J and h as the first.
C11_Idempotent ==
    (pc = "idle" /\ nm.pc = "twice") =>
        /\ MatEq(nm.twice.S, nm.once.S)
        /\ MatEq(nm.twice.J, nm.once.J)
        /\ nm.twice.h = nm.once.h

\* ------------------------------------------------------------------- C12
\* C12: the S returned is symmetric with nonnegative off-diagonal entries
\* and every row sums to zero (the diagonal is minus the sum of the row's
\* off-diagonal entries); the J returned is symmetric; h is unchanged.
Symmetric(m) == \A i, j \in States : m.n[i][j] = m.n[j][i]

C12_ValidGenerator ==
    (pc = "idle" /\ nm.pc # "raw") =>
        /\ Symmetric(nm.once.S)
        /\ \A i, j \in States : i # j => nm.once.S.n[i][j] >= 0
        /\ \A i \in States : SumOver(nm.once.S.n[i], States) = 0
        /\ Symmetric(nm.once.J)
        /\ nm.once.h = nm.raw.h

\* ------------------------------------------------------------------- C13
\* the state handed to bounded_optimize: the one the first bound is scored
\* on and the first sweep starts from
FirstSweepStart == pc = "score0" \/ (pc = "update" /\ n_updates = 0)

\* C13 as stated: the first sweep starts from the exact closed-form
\* trajectories, no ODE re-solve having taken place.
C13_Original ==
    FirstSweepStart =>
        \A i \in Comps : /\ mu_solns[i].kind = "exact"
                         /\ rho_solns[i].kind = "exact"

\* C13: the exact closed-form mu_i and rho_i are constructed first; before
\* the first sweep every rho_i is re-solved by ODE against the exact
\* trajectories of all components and then every mu_i against the exact mu
\* and the re-solved rho of all components (one batched update); the first
\* sweep starts from these ODE solutions.
C13_BatchedInit ==
    /\ pc = "exact" =>
        \A i \in Comps : /\ mu_solns[i].kind = "exact"
                         /\ rho_solns[i].kind = "exact"
    /\ FirstSweepStart =>
        \A i \in Comps :
            /\ rho_solns[i].kind = "ode" /\ rho_solns[i].sweep = 0
            /\ mu_solns[i].kind = "ode" /\ mu_solns[i].sweep = 0
            /\ rho_solns[i].readMu = [j \in Comps |-> -1]
            /\ rho_solns[i].readRho = [j \in Comps |-> -1]
            /\ mu_solns[i].readMu = [j \in Comps |-> -1]
            /\ mu_solns[i].readRho = [j \in Comps |-> 0]

C13_Witness ==
    /\ pc = "update"
    /\ n_updates = 0
    /\ args.K >= 2
    /\ mu_solns[1].readRho[0] = 0
    /\ rho_solns[1].readMu[0] = -1

\* ------------------------------------------------------------------- C15
MaskedSlots == {k \in NbrSlots(rt.M) : rt.nbr_mask[k] = 0}
RealSlots == {k \in NbrSlots(rt.M) : rt.nbr_mask[k] = 1}

\* C15: in q_bar, q_bar_cond, q_tilde and q_tilde_cond every masked
\* neighbour slot contributes the factor exactly 1 to the product over the
\* neighbour axis, respectively the term 0 to the energy sum, whatever
\* marginal sits in the slot (for the conditioned variants: in the rows of
\* the real neighbours).
C15_MaskedSlotsNeutral ==
    pc = "idle" =>
        /\ rt.q_bar.given =>
             \A k \in MaskedSlots : \A y \in States :
                 rt.q_bar.val[k][y] = MuDen
        /\ rt.q_tilde.given =>
             \A k \in MaskedSlots : \A y \in States :
                 rt.q_tilde.val[k][y] = 0
        /\ rt.q_tilde_cond.given =>
             \A j \in RealSlots : \A k \in MaskedSlots : \A y \in States :
                 rt.q_tilde_cond.val[j][k][y] = 0
        /\ rt.q_bar_cond.given =>
             \A j \in RealSlots : \A k \in MaskedSlots : \A y \in States :
                 rt.q_bar_cond.val[j][k][y] = MuDen

\* ------------------------------------------------------------------- C16
\* C16: within one call with K >= 2 every sweep visits the components in
\* the same order, the permutation drawn from the call's unchanged prng
\* key, and sweep after sweep the index carried over differs from the
\* first element of that permutation, so the reversal is never applied.
C16_SameOrderEverySweep ==
    (pc # "idle" /\ pc # "start" /\ pc # "exact" /\ pc # "error" /\ args.K >= 2) =>
        /\ InSweep => order = permutation(args.prng, args.K)
        /\ pc = "update" => last_i # permutation(args.prng, args.K)[0]

C16_Witness ==
    /\ pc = "scan"
    /\ args.K >= 2
    /\ n_updates >= 2
    /\ last_i = order[args.K - 1]
    /\ order = permutation(args.prng, args.K)

\* ------------------------------------------------------------------- C17
\* the tree of the call, read off the arguments
TreeLeaves == {n \in Nodes(ch.parentIndex) : \A m \in Nodes(ch.parentIndex) : ch.parentIndex[m] # n}
RECURSIVE Ancestors(_)
Ancestors(n) == IF ch.parentIndex[n] < 0 \/ ch.parentIndex[n] = n THEN {n}
                ELSE {n} \cup Ancestors(ch.parentIndex[n])
MRCA(i, j) == Max(Ancestors(i) \cap Ancestors(j))
Below(i, a) == {n \in Ancestors(i) : n > a}
PathLength(i, j) ==
    SumOver(ch.distanceToParent, Below(i, MRCA(i, j)))
    + SumOver(ch.distanceToParent, Below(j, MRCA(i, j)))
Yielding == pc = "idle" /\ ch.pc \in {"cherryPairs", "exhausted"}

\* C17: for a valid tree every pair (i,j) yielded consists of two distinct
\* leaves with i < j, its distance is strictly positive and is the sum of
\* the branch lengths on the path between i and j through their most recent
\* common ancestor, no leaf is in two yielded pairs, and the pairs are
\* yielded in nondecreasing order of distance.
C17_DisjointSortedPairs ==
    Yielding =>
        /\ \A k \in 1..Len(ch.out) :
             LET e == ch.out[k]
             IN /\ e.i \in TreeLeaves /\ e.j \in TreeLeaves
                /\ e.i < e.j
                /\ e.d > 0
                /\ e.d = PathLength(e.i, e.j)
        /\ \A k, l \in 1..Len(ch.out) :
             k < l => /\ {ch.out[k].i, ch.out[k].j} \cap {ch.out[l].i, ch.out[l].j} = {}
                      /\ ch.out[k].d <= ch.out[l].d

C17_Witness ==
    /\ pc = "idle"
    /\ ch.pc = "exhausted"
    /\ Len(ch.out) = 2
    /\ ch.out[1].d < ch.out[2].d
    /\ ch.out[2].i < ch.out[1].i
    /\ ch.out[2].d = PathLength(ch.out[2].i, ch.out[2].j)

\* ------------------------------------------------------------------- C18
\* a leaf at zero distance from an earlier leaf that is itself no duplicate
RECURSIVE Duplicate(_)
Duplicate(j) ==
    \E i \in TreeLeaves : i < j /\ ~Duplicate(i) /\ PathLength(i, j) = 0
Paired == UNION {{ch.out[k].i, ch.out[k].j} : k \in 1..Len(ch.out)}

\* C18: a leaf at zero distance from an earlier still-available leaf is a
\* duplicate and is in no yielded pair; once the pairs are exhausted at most
\* one of the other leaves is in no yielded pair.
C18_MaximalPairing ==
    Yielding =>
        /\ \A j \in TreeLeaves : Duplicate(j) => j \notin Paired
        /\ ch.pc = "exhausted" =>
             Cardinality({n \in TreeLeaves : ~Duplicate(n) /\ n \notin Paired}) <= 1

C18_Witness ==
    /\ pc = "idle"
    /\ ch.pc = "exhausted"
    /\ \E j \in TreeLeaves : Duplicate(j)
    /\ Len(ch.out) >= 1
    /\ Cardinality({n \in TreeLeaves : ~Duplicate(n) /\ n \notin Paired}) = 1

====
